---------------------------- MODULE Spec2Model ----------------------------
(***************************************************************************)
(* Model of the Bible API backend (src/main.py, src/schemas.py).           *)
(*                                                                         *)
(* Python strings are tuples of one-character strings, so that lower(),    *)
(* split(), strip(), replace(), slicing and the `in` test are computed     *)
(* character by character.  Python dicts are tuples of <<key, value>>      *)
(* pairs in insertion order, so that iteration order is part of the model. *)
(***************************************************************************)
EXTENDS Integers, Sequences, FiniteSets, TLC

VARIABLES
    sampleTexts,   \* the module global SAMPLE_TEXTS
    audioSync,     \* the module global AUDIO_SYNC
    db,            \* the store handle imported from database: None or a handle
    collections,   \* the document store: collection name -> tuple of documents
    nextId,        \* the store's identifier generator
    inflight,      \* per client: the validated create request awaiting its store call
    created,       \* history: the successful creates, as answered to the clients
    resp           \* the last HTTP response produced, with the request it answers

vars == <<sampleTexts, audioSync, db, collections, nextId, inflight, created, resp>>

-----------------------------------------------------------------------------
(* Python values *)

\* Python's None, comparable with every string of the model and equal to none.
None == <<"None">>

\* bool(x) for an Optional[str]: None and "" are falsy.
Truthy(x) == x # None /\ x # <<>>

Min(a, b) == IF a <= b THEN a ELSE b

Max(a, b) == IF a >= b THEN a ELSE b

UpperCase ==
    <<"A", "B", "C", "D", "E", "F", "G", "H", "I", "J", "K", "L", "M",
      "N", "O", "P", "Q", "R", "S", "T", "U", "V", "W", "X", "Y", "Z">>

LowerCase ==
    <<"a", "b", "c", "d", "e", "f", "g", "h", "i", "j", "k", "l", "m",
      "n", "o", "p", "q", "r", "s", "t", "u", "v", "w", "x", "y", "z">>

ToLower ==
    [c \in {UpperCase[i] : i \in 1..Len(UpperCase)} |->
        LowerCase[CHOOSE i \in 1..Len(UpperCase) : UpperCase[i] = c]]

LowerChar(c) == IF c \in DOMAIN ToLower THEN ToLower[c] ELSE c

\* str.lower()
Lower(s) == [i \in 1..Len(s) |-> LowerChar(s[i])]

\* q in s
Contains(s, q) ==
    LET n == Len(q)
    IN  \E i \in 0..(Len(s) - n) : \A j \in 1..n : s[i + j] = q[j]

Whitespace == {" ", "\t"}

\* str.strip()
RECURSIVE Strip(_)
Strip(s) ==
    IF s = <<>> THEN s
    ELSE IF Head(s) \in Whitespace THEN Strip(Tail(s))
    ELSE IF s[Len(s)] \in Whitespace THEN Strip(SubSeq(s, 1, Len(s) - 1))
    ELSE s

\* str.split(sep) for a one-character separator
RECURSIVE Split(_, _)
Split(s, sep) ==
    IF \E i \in 1..Len(s) : s[i] = sep
    THEN LET i == CHOOSE k \in 1..Len(s) :
                      s[k] = sep /\ \A j \in 1..(k - 1) : s[j] # sep
         IN  <<SubSeq(s, 1, i - 1)>> \o Split(SubSeq(s, i + 1, Len(s)), sep)
    ELSE <<s>>

\* str.replace(old, new) for one-character old and new
Replace(s, old, new) == [i \in 1..Len(s) |-> IF s[i] = old THEN new ELSE s[i]]

\* seq[:n], for any integer n
SliceTo(seq, n) ==
    IF n >= 0 THEN SubSeq(seq, 1, Min(n, Len(seq)))
    ELSE SubSeq(seq, 1, Max(Len(seq) + n, 0))

\* dict.get(k, default) on a tuple of <<key, value>> pairs
DictGet(d, k, default) ==
    IF \E i \in 1..Len(d) : d[i][1] = k
    THEN d[CHOOSE i \in 1..Len(d) : d[i][1] = k][2]
    ELSE default

\* list(dict.keys())
DictKeys(d) == [i \in 1..Len(d) |-> d[i][1]]

\* the concatenation of a tuple of tuples
RECURSIVE Flatten(_)
Flatten(ss) == IF ss = <<>> THEN <<>> ELSE Head(ss) \o Flatten(Tail(ss))

-----------------------------------------------------------------------------
(* The sample data *)

SAMPLE_TEXTS ==
    << <<<<"E", "S", "V">>,
         << <<<<"J", "o", "h", "n", " ", "3", ":", "1", "6">>,
              <<"F", "o", "r", " ", "G", "o", "d", " ", "s", "o", " ", "l",
                "o", "v", "e", "d", " ", "t", "h", "e", " ", "w", "o", "r",
                "l", "d", ",", " ", "t", "h", "a", "t", " ", "h", "e", " ",
                "g", "a", "v", "e", " ", "h", "i", "s", " ", "o", "n", "l",
                "y", " ", "S", "o", "n", ",", " ", "t", "h", "a", "t", " ",
                "w", "h", "o", "e", "v", "e", "r", " ", "b", "e", "l", "i",
                "e", "v", "e", "s", " ", "i", "n", " ", "h", "i", "m", " ",
                "s", "h", "o", "u", "l", "d", " ", "n", "o", "t", " ", "p",
                "e", "r", "i", "s", "h", " ", "b", "u", "t", " ", "h", "a",
                "v", "e", " ", "e", "t", "e", "r", "n", "a", "l", " ", "l",
                "i", "f", "e", ".">>>>,
            <<<<"P", "s", "a", "l", "m", " ", "2", "3", ":", "1">>,
              <<"T", "h", "e", " ", "L", "o", "r", "d", " ", "i", "s", " ",
                "m", "y", " ", "s", "h", "e", "p", "h", "e", "r", "d", ";",
                " ", "I", " ", "s", "h", "a", "l", "l", " ", "n", "o", "t",
                " ", "w", "a", "n", "t", ".">>>> >> >>,
       <<<<"N", "I", "V">>,
         << <<<<"J", "o", "h", "n", " ", "3", ":", "1", "6">>,
              <<"F", "o", "r", " ", "G", "o", "d", " ", "s", "o", " ", "l",
                "o", "v", "e", "d", " ", "t", "h", "e", " ", "w", "o", "r",
                "l", "d", " ", "t", "h", "a", "t", " ", "h", "e", " ", "g",
                "a", "v", "e", " ", "h", "i", "s", " ", "o", "n", "e", " ",
                "a", "n", "d", " ", "o", "n", "l", "y", " ", "S", "o", "n",
                ",", " ", "t", "h", "a", "t", " ", "w", "h", "o", "e", "v",
                "e", "r", " ", "b", "e", "l", "i", "e", "v", "e", "s", " ",
                "i", "n", " ", "h", "i", "m", " ", "s", "h", "a", "l", "l",
                " ", "n", "o", "t", " ", "p", "e", "r", "i", "s", "h", " ",
                "b", "u", "t", " ", "h", "a", "v", "e", " ", "e", "t", "e",
                "r", "n", "a", "l", " ", "l", "i", "f", "e", ".">>>>,
            <<<<"P", "s", "a", "l", "m", " ", "2", "3", ":", "1">>,
              <<"T", "h", "e", " ", "L", "o", "r", "d", " ", "i", "s", " ",
                "m", "y", " ", "s", "h", "e", "p", "h", "e", "r", "d", ",",
                " ", "I", " ", "l", "a", "c", "k", " ", "n", "o", "t", "h",
                "i", "n", "g", ".">>>> >> >> >>

\* word timings, in tenths of a second (0.0, 0.5, 0.8, ...)
AUDIO_SYNC ==
    << <<<<"J", "o", "h", "n", " ", "3", ":", "1", "6">>,
         <<0, 5, 8, 11, 16, 21, 25, 29, 34, 38, 43, 48, 52, 57, 63>> >> >>

SnippetLen == 160

DefaultLimit == 20

DefaultTranslation == <<"E", "S", "V">>

-----------------------------------------------------------------------------
(* Text routes *)

Response(op, status, req, body) ==
    [op |-> op, status |-> status, req |-> req, body |-> body]

VerseNotFound(reference, translation) ==
    Response("verse", 404, [reference |-> reference, translation |-> translation],
             <<"V", "e", "r", "s", "e", " ", "n", "o", "t", " ", "f", "o",
               "u", "n", "d", " ", "i", "n", " ", "s", "a", "m", "p", "l", "e",
               " ", "d", "a", "t", "a", "s", "e", "t">>)

\* get_verse with the translation parameter dropped from the lookup
VerseResponse_IgnoresTranslation(reference, translation) ==
    LET text == DictGet(DictGet(sampleTexts, DefaultTranslation, <<>>), reference, None)
    IN  IF ~Truthy(text)
        THEN VerseNotFound(reference, translation)
        ELSE Response("verse", 200,
                      [reference |-> reference, translation |-> translation],
                      [reference |-> reference, translation |-> translation,
                       text |-> text])

VerseResponse(reference, translation) ==
    LET text == DictGet(DictGet(sampleTexts, translation, <<>>), reference, None)
    IN  IF ~Truthy(text)
        THEN VerseNotFound(reference, translation)
        ELSE Response("verse", 200,
                      [reference |-> reference, translation |-> translation],
                      [reference |-> reference, translation |-> translation,
                       text |-> text])

get_verse(reference, translation) ==
    /\ resp' = VerseResponse(reference, translation)
    /\ UNCHANGED <<sampleTexts, audioSync, db, collections, nextId, inflight, created>>

\* get_parallel without the strip() of each listed translation
ParallelItems_NoStrip(reference, translations) ==
    LET ts == Split(translations, ",")
        Item(t) ==
            LET verse == DictGet(DictGet(sampleTexts, t, <<>>), reference, None)
            IN  IF Truthy(verse) THEN <<[translation |-> t, text |-> verse]>>
                ELSE <<>>
    IN  Flatten([i \in 1..Len(ts) |-> Item(ts[i])])

ParallelItems(reference, translations) ==
    LET ts == Split(translations, ",")
        Item(raw) ==
            LET t == Strip(raw)
                verse == DictGet(DictGet(sampleTexts, t, <<>>), reference, None)
            IN  IF Truthy(verse) THEN <<[translation |-> t, text |-> verse]>>
                ELSE <<>>
    IN  Flatten([i \in 1..Len(ts) |-> Item(ts[i])])

ParallelResponse(reference, translations) ==
    LET results == ParallelItems(reference, translations)
        req == [reference |-> reference, translations |-> translations]
    IN  IF results = <<>>
        THEN Response("parallel", 404, req, <<"R", "e", "f", "e", "r", "e",
                                              "n", "c", "e", " ", "n", "o",
                                              "t", " ", "f", "o", "u", "n",
                                              "d">>)
        ELSE Response("parallel", 200, req,
                      [reference |-> reference, items |-> results])

get_parallel(reference, translations) ==
    /\ resp' = ParallelResponse(reference, translations)
    /\ UNCHANGED <<sampleTexts, audioSync, db, collections, nextId, inflight, created>>

\* The loop of search_verses over the text store `texts`.
SearchMatchesIn(texts, payload) ==
    LET q == Lower(payload.q)
        translations ==
            IF Truthy(payload.translation) THEN <<payload.translation>>
            ELSE DictKeys(texts)
        Match(t) ==
            LET items == DictGet(texts, t, <<>>)
                Hit(it) == LET txt == Lower(it[2]) IN Contains(txt, q)
                hits == SelectSeq(items, Hit)
            IN  [i \in 1..Len(hits) |->
                    [reference |-> hits[i][1], translation |-> t,
                     snippet |-> SubSeq(hits[i][2], 1,
                                        Min(SnippetLen, Len(hits[i][2])))]]
    IN  Flatten([i \in 1..Len(translations) |-> Match(translations[i])])

SearchMatches(payload) == SearchMatchesIn(sampleTexts, payload)

SearchResults(payload) == SliceTo(SearchMatches(payload), payload.limit)

SearchQuery(q, translation, language, limit) ==
    [q |-> q, translation |-> translation, language |-> language, limit |-> limit]

search_verses(payload) ==
    /\ resp' = Response("search", 200, payload, SearchResults(payload))
    /\ UNCHANGED <<sampleTexts, audioSync, db, collections, nextId, inflight, created>>

voice_search(payload) ==
    /\ resp' = Response("voice_search", 200, payload,
                        SearchResults(SearchQuery(payload.transcript,
                                                  payload.translation,
                                                  None, DefaultLimit)))
    /\ UNCHANGED <<sampleTexts, audioSync, db, collections, nextId, inflight, created>>

AudioResponse(reference, translation) ==
    Response("audio", 200, [reference |-> reference, translation |-> translation],
             [reference |-> reference, translation |-> translation,
              audio_url |-> <<"h", "t", "t", "p", "s", ":", "/", "/", "c",
                              "d", "n", ".", "e", "x", "a", "m", "p", "l", "e",
                              ".", "c", "o", "m", "/", "a", "u", "d", "i", "o",
                              "/">> \o translation
                            \o <<"/">> \o Replace(reference, " ", "_") \o <<
                                                                           ".",
                                                                           "m",
                                                                           "p",
                                                                           "3">>,
              timings |-> DictGet(audioSync, reference, <<>>)])

\* audio_for_reference reading the timings with AUDIO_SYNC.setdefault(reference, [])
audio_for_reference_SetDefault(reference, translation) ==
    /\ resp' = AudioResponse(reference, translation)
    /\ audioSync' = IF \E i \in 1..Len(audioSync) : audioSync[i][1] = reference
                    THEN audioSync
                    ELSE Append(audioSync, <<reference, <<>> >>)
    /\ UNCHANGED <<sampleTexts, db, collections, nextId, inflight, created>>

audio_for_reference(reference, translation) ==
    /\ resp' = AudioResponse(reference, translation)
    /\ UNCHANGED <<sampleTexts, audioSync, db, collections, nextId, inflight, created>>

-----------------------------------------------------------------------------
(* Requests of the text routes *)

References == {<<"J", "o", "h", "n", " ", "3", ":", "1", "6">>, <<"P", "s", "a", "l", "m", " ", "2", "3", ":",
                                 "1">>, <<"G", "e", "n", "e", "s",
                                                  "i", "s", " ", "1", ":", "1">>, <<"j", "o",
                                                                    "h", "n",
                                                                    " ", "3",
                                                                    ":", "1",
                                                                    "6">>, <<>>}

Translations == {<<"E", "S", "V">>, <<"N", "I", "V">>, <<"K", "J", "V">>, <<"e", "s", "v">>, <<>>}

\* A translations parameter with the list Python's split(",") and strip() make
\* of it, written out by hand.
ParallelCases ==
    { [raw |-> <<"E", "S", "V", ",", "N", "I", "V">>,     listed |-> <<<<"E", "S", "V">>, <<"N", "I", "V">>>>],
      [raw |-> <<"N", "I", "V", ",", "E", "S", "V">>,     listed |-> <<<<"N", "I", "V">>, <<"E", "S", "V">>>>],
      [raw |-> <<" ", "E", "S", "V", " ", ",", " ", "N", "I", "V">>,  listed |-> <<<<"E", "S", "V">>, <<"N", "I", "V">>>>],
      [raw |-> <<"E", "S", "V", ",", "K", "J", "V">>,     listed |-> <<<<"E", "S", "V">>, <<"K", "J", "V">>>>],
      [raw |-> <<"K", "J", "V", ",", "N", "I", "V", "\t">>,   listed |-> <<<<"K", "J", "V">>, <<"N", "I", "V">>>>],
      [raw |-> <<"K", "J", "V">>,         listed |-> <<<<"K", "J", "V">>>>],
      [raw |-> <<"e", "s", "v">>,         listed |-> <<<<"e", "s", "v">>>>],
      [raw |-> <<"E", "S", "V", ",", ",", "N", "I", "V">>,    listed |-> <<<<"E", "S", "V">>, <<>>, <<"N", "I",
                                                                 "V">>>>],
      [raw |-> <<"E", "S", "V", ",", "E", "S", "V">>,     listed |-> <<<<"E", "S", "V">>, <<"E", "S", "V">>>>],
      [raw |-> <<"E", " ", "S", "V", ",", "N", "I", "V">>,    listed |-> <<<<"E", " ", "S", "V">>, <<"N", "I", "V">>>>],
      [raw |-> <<"K", "J", "V", ",", " ">>,       listed |-> <<<<"K", "J", "V">>, <<>>>>],
      [raw |-> <<>>,            listed |-> <<<<>>>>] }

ParallelLists == {c.raw : c \in ParallelCases}

Queries ==
    {<<"s", "h", "e", "p", "h", "e", "r", "d">>, <<"S", "H", "E", "P", "H", "E", "R", "D">>, <<"L", "o", "r", "d">>, <<"g", "o", "d", " ", "s", "o">>, <<"l", "a", "c",
                                                             "k">>, <<"x",
                                                                        "y",
                                                                        "z">>,
     <<>>}

OptTranslations == {None, <<"E", "S", "V">>, <<"K", "J", "V">>, <<>>}

Limits == {-1, 0, 1, 3, DefaultLimit}

SearchPayloads ==
    {SearchQuery(q, t, None, l) : q \in Queries, t \in OptTranslations, l \in Limits}

VoicePayloads ==
    {[transcript |-> q, translation |-> t] : q \in Queries, t \in OptTranslations}

-----------------------------------------------------------------------------
(* Document store gateway (database.create_document, database.get_documents) *)

Kinds == {"highlight", "bookmark", "note", "verseplaylist"}

KindOrder == <<"highlight", "bookmark", "note", "verseplaylist">>

Clients == {"c1", "c2"}

MaxDocs == 2

Idle == [op |-> "idle"]

NoResponse == [op |-> "none"]

Digits == <<"0", "1", "2", "3", "4", "5", "6", "7", "8", "9">>

RECURSIVE DecStr(_)
DecStr(n) ==
    IF n < Len(Digits) THEN <<Digits[n + 1]>>
    ELSE DecStr(n \div Len(Digits)) \o <<Digits[(n % Len(Digits)) + 1]>>

\* The n-th identifier the store generates: a value of its own type, equal to
\* no string.
ObjectId(n) == <<"ObjectId", n>>

\* str(id) of a store-generated identifier
ObjectIdStr(id) == <<"o", "i", "d">> \o DecStr(id[2])

\* A store call succeeds when the process holds a handle and the store can be
\* reached at the time of the call.
StoreAvailable(reachable) == db # "None" /\ reachable

\* The document the store keeps for a record: its fields and a fresh _id.
StoredDocument(record) == ("_id" :> ObjectId(nextId)) @@ record

\* The collections after create_document(collection, record).
InsertDocument(collection, record) ==
    [collections EXCEPT ![collection] = Append(@, StoredDocument(record))]

\* get_documents(collection, filter): the documents equal to the filter on
\* every field the filter names, in storage order.
get_documents(collection, filter) ==
    SelectSeq(collections[collection],
              LAMBDA d : \A k \in DOMAIN filter :
                            k \in DOMAIN d /\ d[k] = filter[k])

\* db.list_collection_names(): the collections that hold a document.
ListCollectionNames ==
    SelectSeq(KindOrder, LAMBDA k : collections[k] # <<>>)

-----------------------------------------------------------------------------
(* Entity schemas and user-data routes *)

\* A pydantic `str` field accepts every string, the empty one included, and
\* rejects a missing or null value.
ValidStr(v) == v # None

HighlightValid(p) ==
    ValidStr(p.user_id) /\ ValidStr(p.reference) /\ ValidStr(p.translation)
        /\ ValidStr(p.color)

BookmarkValid(p) ==
    ValidStr(p.user_id) /\ ValidStr(p.reference) /\ ValidStr(p.translation)

NoteValid(p) ==
    ValidStr(p.user_id) /\ ValidStr(p.reference) /\ ValidStr(p.translation)
        /\ ValidStr(p.content)

VersePlaylistValid(p) == ValidStr(p.user_id) /\ ValidStr(p.title)

\* The requests accepted and not yet stored, plus the documents stored.
Load ==
    Cardinality({c \in Clients : inflight[c] # Idle}) + (nextId - 1)

\* A create handler up to its store call: the payload is validated into the
\* request model and the schema; a failure answers 422 and goes no further.
CreateRequest(c, op, collection, valid, payload) ==
    /\ inflight[c] = Idle
    /\ Load < MaxDocs
    /\ IF valid
       THEN /\ inflight' = [inflight EXCEPT ![c] =
                               [op |-> op, collection |-> collection,
                                record |-> payload]]
            /\ UNCHANGED resp
       ELSE /\ resp' = Response(op, 422, payload, <<"v", "a", "l", "i", "d",
                                                    "a", "t", "i", "o", "n",
                                                    " ", "e", "r", "r", "o",
                                                    "r">>)
            /\ UNCHANGED inflight
    /\ UNCHANGED <<sampleTexts, audioSync, db, collections, nextId, created>>

create_highlight(c, payload) ==
    CreateRequest(c, "create_highlight", "highlight", HighlightValid(payload),
                  payload)

\* create_bookmark writing to the highlight collection
create_bookmark_WrongCollection(c, payload) ==
    CreateRequest(c, "create_bookmark", "highlight", BookmarkValid(payload),
                  payload)

create_bookmark(c, payload) ==
    CreateRequest(c, "create_bookmark", "bookmark", BookmarkValid(payload),
                  payload)

create_note(c, payload) ==
    CreateRequest(c, "create_note", "note", NoteValid(payload), payload)

create_playlist(c, payload) ==
    CreateRequest(c, "create_playlist", "verseplaylist",
                  VersePlaylistValid(payload), payload)

\* The store call of a create handler and its answer {"id": doc_id}.
create_document(c, reachable) ==
    /\ inflight[c] # Idle
    /\ inflight' = [inflight EXCEPT ![c] = Idle]
    /\ IF StoreAvailable(reachable)
       THEN /\ collections' = InsertDocument(inflight[c].collection,
                                             inflight[c].record)
            /\ nextId' = nextId + 1
            /\ created' = created \cup
                   {[op |-> inflight[c].op, id |-> ObjectIdStr(ObjectId(nextId)),
                     user_id |-> inflight[c].record.user_id]}
            /\ resp' = Response(inflight[c].op, 200, inflight[c].record,
                                [id |-> ObjectIdStr(ObjectId(nextId))])
       ELSE /\ resp' = Response(inflight[c].op, 500, inflight[c].record,
                                <<"I", "n", "t", "e", "r", "n", "a", "l",
                                  " ", "S", "e", "r", "v", "e", "r", " ", "E",
                                  "r", "r", "o", "r">>)
            /\ UNCHANGED <<collections, nextId, created>>
    /\ UNCHANGED <<sampleTexts, audioSync, db>>

\* The schema fields that hold a datetime: none is declared.
DatetimeFields == {}

\* hasattr(v, "isoformat") for the value of field k
HasIsoformat(doc, k) == k \in DatetimeFields

\* v.isoformat()
IsoFormat(v) == <<"isoformat", v>>

\* to_json that leaves _id in the document beside the new id
to_json_KeepsRawId(doc) ==
    IF DOMAIN doc = {} THEN doc
    ELSE IF "_id" \in DOMAIN doc
         THEN ("id" :> ObjectIdStr(doc["_id"])) @@ doc
         ELSE doc

to_json(doc) ==
    IF DOMAIN doc = {} THEN doc
    ELSE LET renamed ==
                 IF "_id" \in DOMAIN doc
                 THEN [k \in (DOMAIN doc \ {"_id"}) \cup {"id"} |->
                          IF k = "id" THEN ObjectIdStr(doc["_id"]) ELSE doc[k]]
                 ELSE doc
         IN  [k \in DOMAIN renamed |->
                 IF HasIsoformat(renamed, k) THEN IsoFormat(renamed[k])
                 ELSE renamed[k]]

\* A list handler: one query of the store, each document through to_json.
ListResponse(op, collection, query, req, reachable) ==
    IF StoreAvailable(reachable)
    THEN LET docs == get_documents(collection, query)
         IN  Response(op, 200, req, [i \in 1..Len(docs) |-> to_json(docs[i])])
    ELSE Response(op, 500, req, <<"I", "n", "t", "e", "r", "n", "a", "l",
                                  " ", "S", "e", "r", "v", "e", "r", " ", "E",
                                  "r", "r", "o", "r">>)

list_highlights(user_id, reachable) ==
    /\ resp' = ListResponse("list_highlights", "highlight", [user_id |-> user_id],
                            [user_id |-> user_id], reachable)
    /\ UNCHANGED <<sampleTexts, audioSync, db, collections, nextId, inflight, created>>

list_bookmarks(user_id, reachable) ==
    /\ resp' = ListResponse("list_bookmarks", "bookmark", [user_id |-> user_id],
                            [user_id |-> user_id], reachable)
    /\ UNCHANGED <<sampleTexts, audioSync, db, collections, nextId, inflight, created>>

NotesQuery(user_id, reference) ==
    IF Truthy(reference)
    THEN [user_id |-> user_id, reference |-> reference]
    ELSE [user_id |-> user_id]

list_notes(user_id, reference, reachable) ==
    /\ resp' = ListResponse("list_notes", "note", NotesQuery(user_id, reference),
                            [user_id |-> user_id, reference |-> reference],
                            reachable)
    /\ UNCHANGED <<sampleTexts, audioSync, db, collections, nextId, inflight, created>>

list_playlists(user_id, reachable) ==
    /\ resp' = ListResponse("list_playlists", "verseplaylist", [user_id |-> user_id],
                            [user_id |-> user_id], reachable)
    /\ UNCHANGED <<sampleTexts, audioSync, db, collections, nextId, inflight, created>>

\* test_database with the try/except dropped: a failing enumeration propagates
TestDatabaseResponse_NoExcept(raises) ==
    LET req == [db |-> db, raises |-> raises]
        status == [backend |-> <<"r", "u", "n", "n", "i", "n", "g">>, database |-> <<"n", "o", "t",
                                                            "_", "c", "o", "n",
                                                            "n", "e", "c", "t",
                                                            "e", "d">>,
                   collections |-> <<>>]
    IN  IF db = "None" THEN Response("test", 200, req, status)
        ELSE IF raises
        THEN Response("test", 500, req, <<"I", "n", "t", "e", "r", "n", "a",
                                          "l", " ", "S", "e", "r", "v", "e",
                                          "r", " ", "E", "r", "r", "o", "r">>)
        ELSE Response("test", 200, req,
                      [status EXCEPT !.database = <<"c", "o", "n", "n", "e",
                                                    "c", "t", "e", "d">>,
                                     !.collections = ListCollectionNames])

TestDatabaseResponse(raises) ==
    LET req == [db |-> db, raises |-> raises]
        status == [backend |-> <<"r", "u", "n", "n", "i", "n", "g">>, database |-> <<"n", "o", "t",
                                                            "_", "c", "o", "n",
                                                            "n", "e", "c", "t",
                                                            "e", "d">>,
                   collections |-> <<>>]
    IN  IF db = "None" THEN Response("test", 200, req, status)
        ELSE LET connected == [status EXCEPT !.database = <<"c", "o", "n",
                                                            "n", "e", "c", "t",
                                                            "e", "d">>]
             IN  IF raises
                 THEN Response("test", 200, req,
                               ("database_error" :> <<"s", "t", "o", "r",
                                                      "e", " ", "u", "n", "a",
                                                      "v", "a", "i", "l", "a",
                                                      "b", "l", "e">>)
                                   @@ connected)
                 ELSE Response("test", 200, req,
                               [connected EXCEPT
                                   !.collections = ListCollectionNames])

\* GET /test; `raises` is whether db.list_collection_names() raises.
test_database(raises) ==
    /\ resp' = TestDatabaseResponse(raises)
    /\ UNCHANGED <<sampleTexts, audioSync, db, collections, nextId, inflight, created>>

-----------------------------------------------------------------------------
(* Requests of the user-data routes *)

UserIds == {<<"u", "1">>, <<"u", "2">>}

Highlight(user_id, reference, translation) ==
    [user_id |-> user_id, reference |-> reference, translation |-> translation,
     color |-> <<"y", "e", "l", "l", "o", "w">>, note |-> None]

HighlightPayloads ==
    {Highlight(<<"u", "1">>, <<"J", "o", "h", "n", " ", "3", ":", "1", "6">>, <<"E", "S", "V">>),
     Highlight(<<"u", "2">>, <<"J", "o", "h", "n", " ", "3", ":", "1", "6">>, <<"N", "I", "V">>),
     Highlight(<<>>, <<>>, <<>>),
     Highlight(<<"u", "1">>, None, <<"E", "S", "V">>)}

Bookmark(user_id, reference, translation) ==
    [user_id |-> user_id, reference |-> reference, translation |-> translation,
     label |-> None]

BookmarkPayloads == {Bookmark(<<"u", "1">>, <<"P", "s", "a", "l", "m", " ", "2",
                                         "3", ":", "1">>, <<"E", "S", "V">>)}

Note(user_id, reference, content) ==
    [user_id |-> user_id, reference |-> reference, translation |-> <<"E",
                                                                     "S", "V">>,
     content |-> content]

NotePayloads ==
    {Note(<<"u", "1">>, <<"J", "o", "h", "n", " ", "3", ":", "1", "6">>, <<"g", "r", "a", "c", "e">>),
     Note(<<"u", "1">>, <<"P", "s", "a", "l", "m", " ", "2", "3", ":", "1">>, <<>>),
     Note(<<"u", "2">>, <<"J", "o", "h", "n", " ", "3", ":", "1", "6">>, <<"g", "r", "a", "c", "e">>),
     Note(<<"u", "1">>, <<"J", "o", "h", "n", " ", "3", ":", "1", "6">>, None)}

VersePlaylist(user_id, title) ==
    [user_id |-> user_id, title |-> title, mood |-> None, theme |-> None,
     references |-> <<<<"J", "o", "h", "n", " ", "3", ":", "1", "6">>, <<"P", "s", "a", "l", "m", " ", "2",
                                        "3", ":", "1">>>>]

PlaylistPayloads == {VersePlaylist(<<"u", "1">>, <<"C", "o", "m", "f", "o", "r",
                                              "t">>)}

NoteReferences == {None, <<>>, <<"J", "o", "h", "n", " ", "3", ":", "1",
                                  "6">>}

-----------------------------------------------------------------------------
(* Specifications *)

Init ==
    /\ sampleTexts = SAMPLE_TEXTS
    /\ audioSync = AUDIO_SYNC
    /\ db \in {"None", "handle"}
    /\ collections = [k \in Kinds |-> <<>>]
    /\ nextId = 1
    /\ inflight = [c \in Clients |-> Idle]
    /\ created = {}
    /\ resp = NoResponse

\* The text routes, over the full range of their requests.
NextText ==
    \/ \E r \in References, t \in Translations : get_verse(r, t)
    \/ \E r \in References, ts \in ParallelLists : get_parallel(r, ts)
    \/ \E p \in SearchPayloads : search_verses(p)
    \/ \E p \in VoicePayloads : voice_search(p)
    \/ \E r \in References, t \in Translations : audio_for_reference(r, t)

SpecText == Init /\ [][NextText]_vars

\* The user-data routes and the health check, with concurrent clients.
Next ==
    \/ \E c \in Clients, p \in HighlightPayloads : create_highlight(c, p)
    \/ \E c \in Clients, p \in BookmarkPayloads : create_bookmark(c, p)
    \/ \E c \in Clients, p \in NotePayloads : create_note(c, p)
    \/ \E c \in Clients, p \in PlaylistPayloads : create_playlist(c, p)
    \/ \E c \in Clients, up \in BOOLEAN : create_document(c, up)
    \/ \E u \in UserIds, up \in BOOLEAN : list_highlights(u, up)
    \/ \E up \in BOOLEAN : list_bookmarks(<<"u", "1">>, up)
    \/ \E u \in UserIds, r \in NoteReferences, up \in BOOLEAN :
           list_notes(u, r, up)
    \/ \E up \in BOOLEAN : list_playlists(<<"u", "1">>, up)
    \/ \E raises \in BOOLEAN : test_database(raises)

Spec == Init /\ [][Next]_vars

RepeatedSearches ==
    {SearchQuery(<<"s", "h", "e", "p", "h", "e", "r", "d">>, None, None, 1),
     SearchQuery(<<"G", "o", "d">>, <<"N", "I", "V">>, None, DefaultLimit)}

\* Every route, each over a few requests, with a single client.
NextAll ==
    \/ \E t \in {<<"E", "S", "V">>, <<"K", "J", "V">>} : get_verse(<<"J", "o", "h", "n", " ",
                                                   "3", ":", "1", "6">>, t)
    \/ \E ts \in {<<"E", "S", "V", ",", "N", "I", "V">>, <<"K", "J", "V">>} : get_parallel(<<"P", "s", "a",
                                                           "l", "m", " ", "2",
                                                           "3", ":", "1">>, ts)
    \/ \E p \in RepeatedSearches : search_verses(p)
    \/ voice_search([transcript |-> <<"L", "o", "r", "d">>, translation |-> <<"N", "I",
                                                                 "V">>])
    \/ \E r \in {<<"J", "o", "h", "n", " ", "3", ":", "1", "6">>, <<"P", "s", "a", "l", "m", " ", "2", "3",
                                   ":", "1">>} :
           audio_for_reference(r, DefaultTranslation)
    \/ create_highlight("c1", Highlight(<<"u", "1">>, <<"J", "o", "h", "n", " ",
                                                   "3", ":", "1", "6">>, <<"E", "S",
                                                                   "V">>))
    \/ create_bookmark("c1", Bookmark(<<"u", "1">>, <<"P", "s", "a", "l", "m",
                                                 " ", "2", "3", ":", "1">>, <<"E", "S",
                                                                  "V">>))
    \/ create_note("c1", Note(<<"u", "1">>, <<"J", "o", "h", "n", " ", "3", ":",
                                         "1", "6">>, <<"g", "r", "a", "c",
                                                         "e">>))
    \/ create_playlist("c1", VersePlaylist(<<"u", "1">>, <<"C", "o", "m", "f",
                                                      "o", "r", "t">>))
    \/ create_document("c1", TRUE)
    \/ list_highlights(<<"u", "1">>, TRUE)
    \/ list_bookmarks(<<"u", "1">>, TRUE)
    \/ list_notes(<<"u", "1">>, None, TRUE)
    \/ list_playlists(<<"u", "1">>, TRUE)
    \/ test_database(FALSE)

SpecAll == Init /\ [][NextAll]_vars

-----------------------------------------------------------------------------
(* Properties of the text routes *)

\* The texts stored for the pair (translation, reference), read off the pairs
\* of the sample set.
StoredTexts(translation, reference) ==
    {sampleTexts[i][2][j][2] :
        <<i, j>> \in {<<i, j>> \in (1..Len(sampleTexts)) \X (1..2) :
                         /\ j <= Len(sampleTexts[i][2])
                         /\ sampleTexts[i][1] = translation
                         /\ sampleTexts[i][2][j][1] = reference}}

\* C2: GET /api/verse answers with exactly the text stored for the requested
\* (translation, reference) pair when the pair is in the sample set, and with
\* 404 when the translation is unknown or the reference is absent from it.
C2_VerseLookup ==
    resp.op = "verse" =>
        LET stored == StoredTexts(resp.req.translation, resp.req.reference)
        IN  IF stored = {} THEN resp.status = 404
            ELSE /\ resp.status = 200
                 /\ stored = {resp.body.text}
                 /\ resp.body.reference = resp.req.reference
                 /\ resp.body.translation = resp.req.translation

C2_Witness ==
    /\ resp.op = "verse"
    /\ resp.status = 200
    /\ resp.req.translation = <<"N", "I", "V">>
    /\ resp.req.reference = <<"P", "s", "a", "l", "m", " ", "2", "3", ":",
                              "1">>

\* The items GET /api/parallel is to return for a reference and a list of
\* (already trimmed) translations: one per listed translation holding the
\* reference, in the listed order.
ExpectedItems(reference, listed) ==
    LET Item(t) ==
            IF StoredTexts(t, reference) = {} THEN <<>>
            ELSE <<[translation |-> t,
                    text |-> CHOOSE x \in StoredTexts(t, reference) : TRUE]>>
    IN  Flatten([i \in 1..Len(listed) |-> Item(listed[i])])

\* C3: GET /api/parallel returns one (translation, text) item for exactly the
\* listed translations, trimmed, that contain the reference, in the listed
\* order, and 404 if and only if none of them contains it.
C3_ParallelLookup ==
    resp.op = "parallel" =>
        LET case == CHOOSE c \in ParallelCases : c.raw = resp.req.translations
            expected == ExpectedItems(resp.req.reference, case.listed)
        IN  /\ (resp.status = 404) <=> (expected = <<>>)
            /\ resp.status \in {200, 404}
            /\ resp.status = 200 =>
                   /\ resp.body.items = expected
                   /\ resp.body.reference = resp.req.reference

C3_Witness ==
    /\ resp.op = "parallel"
    /\ resp.status = 200
    /\ resp.req.translations = <<" ", "E", "S", "V", " ", ",", " ", "N", "I",
                                 "V">>
    /\ Len(resp.body.items) = 2

\* txt contains q as a substring, ignoring letter case.
ContainsIgnoringCase(txt, q) ==
    \E i \in 0..(Len(txt) - Len(q)) :
        \A j \in 1..Len(q) : LowerChar(txt[i + j]) = LowerChar(q[j])

\* The entries a search for q is to return: from every translation when no
\* translation is given, from the given one otherwise, in the order of the
\* sample set.
ExpectedEntries(q, translation) ==
    LET Entries(i) ==
            LET t == sampleTexts[i][1]
                hits == SelectSeq(sampleTexts[i][2],
                                  LAMBDA it : ContainsIgnoringCase(it[2], q))
            IN  IF translation = None \/ translation = t
                THEN [k \in 1..Len(hits) |->
                        [reference |-> hits[k][1], translation |-> t,
                         snippet |-> SubSeq(hits[k][2], 1,
                                            Min(SnippetLen, Len(hits[k][2])))]]
                ELSE <<>>
    IN  Flatten([i \in 1..Len(sampleTexts) |-> Entries(i)])

\* C4: the entries of a search result are exactly the verses whose text
\* contains q ignoring case, from all translations when none is given and
\* only from the given translation otherwise (none for an unknown one), each
\* with the first 160 characters of its text, in sample-set order.
C4_SearchEntries ==
    (resp.op = "search" /\ resp.req.limit = DefaultLimit) =>
        resp.body = ExpectedEntries(resp.req.q, resp.req.translation)

\* C4 holds of every request whose translation is not the empty string.
C4_SearchEntriesGivenNonEmpty ==
    (resp.op = "search" /\ resp.req.limit = DefaultLimit
        /\ resp.req.translation # <<>>) =>
        resp.body = ExpectedEntries(resp.req.q, resp.req.translation)

IsPrefix(s, t) == Len(s) <= Len(t) /\ s = SubSeq(t, 1, Len(s))

\* C5: for every accepted limit the search result has at most limit entries
\* and is the leading prefix of the untruncated result of the same query.
C5_SearchLimit ==
    resp.op = "search" =>
        /\ Len(resp.body) <= resp.req.limit
        /\ IsPrefix(resp.body, SearchMatches(resp.req))

\* C5 holds of every request whose limit is not negative.
C5_SearchLimitNonNegative ==
    (resp.op = "search" /\ resp.req.limit >= 0) =>
        /\ Len(resp.body) <= resp.req.limit
        /\ IsPrefix(resp.body, SearchMatches(resp.req))

-----------------------------------------------------------------------------
(* Properties of the user-data routes and the health check *)

Records(k) == {collections[k][i] : i \in 1..Len(collections[k])}

\* C1: a create whose required string field is empty stores nothing, so every
\* stored record has a non-empty user_id and no highlight has an empty
\* reference.
C1_RequiredFieldsNonEmpty ==
    /\ \A k \in Kinds : \A d \in Records(k) : d.user_id # <<>>
    /\ \A d \in Records("highlight") : d.reference # <<>>

\* C6: GET /api/highlights?user_id=U holds, for every highlight created for U,
\* an entry with the id the create returned, without _id and with user_id U,
\* and holds no entry of another user.
C6_HighlightRoundTrip ==
    (resp.op = "list_highlights" /\ resp.status = 200) =>
        /\ \A e \in created :
               (e.op = "create_highlight" /\ e.user_id = resp.req.user_id) =>
                   \E i \in 1..Len(resp.body) :
                       /\ resp.body[i].id = e.id
                       /\ "_id" \notin DOMAIN resp.body[i]
                       /\ resp.body[i].user_id = resp.req.user_id
        /\ \A i \in 1..Len(resp.body) :
               /\ resp.body[i].user_id = resp.req.user_id
               /\ "_id" \notin DOMAIN resp.body[i]

C6_Witness ==
    /\ resp.op = "list_highlights"
    /\ resp.status = 200
    /\ Len(resp.body) = 1
    /\ Len(collections["highlight"]) = 2
    /\ \E e \in created : e.op = "create_highlight" /\ e.id = resp.body[1].id

\* C7: GET /api/notes?user_id=U&reference=R returns only notes of user U with
\* reference R, for every R supplied, the empty string included.
C7_NotesFilter ==
    (resp.op = "list_notes" /\ resp.status = 200) =>
        \A i \in 1..Len(resp.body) :
            /\ resp.body[i].user_id = resp.req.user_id
            /\ resp.req.reference # None =>
                   resp.body[i].reference = resp.req.reference

\* C7 holds of every request whose reference is not the empty string.
C7_NotesFilterNonEmpty ==
    (resp.op = "list_notes" /\ resp.status = 200) =>
        \A i \in 1..Len(resp.body) :
            /\ resp.body[i].user_id = resp.req.user_id
            /\ Truthy(resp.req.reference) =>
                   resp.body[i].reference = resp.req.reference

\* C8: GET /test always answers normally: without a store handle it reports
\* not_connected and no collections, and a failing enumeration of the
\* collection names is reported as database_error in the body.
C8_HealthCheckNeverRaises ==
    resp.op = "test" =>
        /\ resp.status = 200
        /\ resp.req.db = "None" =>
               /\ resp.body.database = <<"n", "o", "t", "_", "c", "o", "n",
                                         "n", "e", "c", "t", "e", "d">>
               /\ resp.body.collections = <<>>
               /\ "database_error" \notin DOMAIN resp.body
        /\ (resp.req.db # "None" /\ resp.req.raises) =>
               "database_error" \in DOMAIN resp.body

C8_Witness ==
    /\ resp.op = "test"
    /\ resp.req.db = "handle"
    /\ resp.req.raises
    /\ nextId > 1

\* C9: no operation changes the sample texts or the audio timing map, so the
\* result of every search stays what it was.
C9_SampleDataReadOnly ==
    [][/\ sampleTexts' = sampleTexts
       /\ audioSync' = audioSync
       /\ \A p \in RepeatedSearches :
              SliceTo(SearchMatchesIn(sampleTexts', p), p.limit) = SearchResults(p)]_vars

C9_Witness ==
    /\ resp.op = "search"
    /\ resp.body # <<>>
    /\ nextId > 1
    /\ \E p \in RepeatedSearches : resp.req = p

\* The collection a create route is to write to.
OwnCollection ==
    [create_highlight |-> "highlight", create_bookmark |-> "bookmark",
     create_note |-> "note", create_playlist |-> "verseplaylist"]

AllRecords == UNION {Records(k) : k \in Kinds}

TotalRecords ==
    Len(collections["highlight"]) + Len(collections["bookmark"])
        + Len(collections["note"]) + Len(collections["verseplaylist"])

\* C10: under every interleaving each successful create appends one record to
\* the collection of its own kind and to no other, no request changes or
\* removes a record, the identifiers are pairwise distinct and differ from
\* the user_id, and each collection holds as many records as creates of its
\* kind succeeded.
C10_AppendOnlyDistinctIds ==
    /\ [](/\ \A k \in Kinds :
                Len(collections[k]) =
                    Cardinality({e \in created : OwnCollection[e.op] = k})
          /\ Cardinality({d["_id"] : d \in AllRecords}) = TotalRecords
          /\ \A d \in AllRecords : d["_id"] # d.user_id)
    /\ [][/\ \A k \in Kinds : IsPrefix(collections[k], collections'[k])
          /\ \A e \in created' \ created :
                 /\ Len(collections'[OwnCollection[e.op]]) =
                        Len(collections[OwnCollection[e.op]]) + 1
                 /\ \A k \in Kinds \ {OwnCollection[e.op]} :
                        collections'[k] = collections[k]
          /\ created' = created => collections' = collections]_vars

C10_Witness ==
    /\ Len(collections["highlight"]) = 1
    /\ inflight["c1"] = Idle
    /\ inflight["c2"] # Idle
    /\ inflight["c2"].collection = "note"

=============================================================================
